---- MODULE Spec2Model ----
(***************************************************************************)
(* Model of the Sony VPL-FH30 projector control scripts on.py, off.py and  *)
(* query.py: the status pipeline (fetch -> parse_info_status ->            *)
(* normalize_status) and the power-on / power-off sessions of main().      *)
(*                                                                         *)
(* Text is modelled as a sequence of one-character strings, so that        *)
(* strip(), upper(), substring tests and the two regular expressions are   *)
(* computed character by character as Python computes them.              *)
(***************************************************************************)
EXTENDS Integers, Sequences, FiniteSets, TLC

VARIABLES
    prog,        \* what runs: the script "on", "off" or "query", a direct
                 \* call ("normalize", "parse"), or sessions sharing one
                 \* projector ("device")
    pc,          \* position of main() in the running script
    status,      \* main()'s local variable `status`
    now,         \* time.time(), in whole seconds since the process started
    start,       \* main()'s local variable `start`
    exitCode,    \* argument of sys.exit, -1 while the process runs
    toggles,     \* number of GET requests sent to the toggle URL so far
    toggleOk,    \* outcome of the toggle request: "none", "ok" or "failed"
    initStatus,  \* the status returned by the initial get_status call
    pollReads,   \* number of get_status calls made inside the polling loop
    sleeps,      \* number of time.sleep calls made
    tok,         \* argument given to normalize_status when called directly
    norm,        \* results of the three normalize_status implementations
    sawTarget,   \* some get_status call of the session returned its target
    fetches,     \* number of GET requests sent to the status URL so far
    lastRead,    \* how the latest status read went: "none" before any,
                 \* "raised", "no_token" or "token"; in query.py "fetched"
                 \* once fetch returned, or the class of the exception raised
    page,        \* the page text fetch returned / given to parse_info_status
    parsed,      \* results of the three parse_info_status implementations
    sess,        \* the sessions that share one projector, one record each
    device,      \* power state of the shared projector
    device0,     \* power state of the shared projector when the sessions began
    pulses       \* number of toggle pulses the shared projector received

vars == <<prog, pc, status, now, start, exitCode, toggles, toggleOk,
          initStatus, pollReads, sleeps, tok, norm, sawTarget, fetches,
          lastRead, page, parsed, sess, device, device0, pulses>>

\* state of the direct calls of parse_info_status and normalize_status
PureVars == <<tok, norm, page, parsed>>

\* state of the sessions that share a projector
DeviceVars == <<sess, device, device0, pulses>>

----------------------------------------------------------------------------
(* Bounds of the model *)

\* longest time one HTTP exchange (status fetch or toggle) is observed to take
MaxFetchDelay == 1
\* longest time by which time.sleep oversleeps the requested interval
MaxSleepLag == 1
\* most whitespace characters put on either side of a token
MaxPad == 1
\* longest token built freely from the small alphabet
MaxFreeLen == 2

----------------------------------------------------------------------------
(* Characters and strings *)

Lower == <<"a","b","c","d","e","f","g","h","i","j","k","l","m",
           "n","o","p","q","r","s","t","u","v","w","x","y","z">>
Upper == <<"A","B","C","D","E","F","G","H","I","J","K","L","M",
           "N","O","P","Q","R","S","T","U","V","W","X","Y","Z">>

\* characters str.strip() removes and \s matches (those of the model's alphabet)
Whitespace == {" ", "\t", "\n", "\r"}

\* str.upper() on one character
UpperChar(c) ==
    IF \E i \in 1..Len(Lower) : Lower[i] = c
    THEN Upper[CHOOSE i \in 1..Len(Lower) : Lower[i] = c]
    ELSE c

\* str.lower() on one character
LowerChar(c) ==
    IF \E i \in 1..Len(Upper) : Upper[i] = c
    THEN Lower[CHOOSE i \in 1..Len(Upper) : Upper[i] = c]
    ELSE c

\* s.upper()
ToUpper(s) == [i \in 1..Len(s) |-> UpperChar(s[i])]

\* s.lower()
ToLower(s) == [i \in 1..Len(s) |-> LowerChar(s[i])]

RECURSIVE LStrip(_)
LStrip(s) ==
    IF s = <<>> THEN s
    ELSE IF Head(s) \in Whitespace THEN LStrip(Tail(s)) ELSE s

RECURSIVE RStrip(_)
RStrip(s) ==
    IF s = <<>> THEN s
    ELSE IF s[Len(s)] \in Whitespace THEN RStrip(SubSeq(s, 1, Len(s) - 1)) ELSE s

\* s.strip()
Strip(s) == RStrip(LStrip(s))

\* Python's `sub in s` on strings
Contains(sub, s) ==
    \E i \in 1..(Len(s) - Len(sub) + 1) : SubSeq(s, i, i + Len(sub) - 1) = sub

\* Optional[str]: None, or a string
None == [some |-> FALSE, val |-> <<>>]
Some(s) == [some |-> TRUE, val |-> s]

\* the vendor tokens the scripts compare against
T_ON == <<"O","N">>
T_STARTUP == <<"S","T","A","R","T","U","P">>
T_STARTUP1 == T_STARTUP \o <<"1">>
T_STARTUP2 == T_STARTUP \o <<"2">>
T_POWER_ON == <<"P","O","W","E","R"," ","O","N">>
T_OFF == <<"O","F","F">>
T_STANDBY == <<"S","T","A","N","D","B","Y">>
T_COOL == <<"C","O","O","L">>
T_WARM == <<"W","A","R","M">>

----------------------------------------------------------------------------
(* normalize_status, one definition per script *)

on_normalize_status(s) ==
    IF ~s.some THEN "UNKNOWN"
    ELSE LET up == ToUpper(Strip(s.val)) IN
         IF up \in {T_ON, T_STARTUP, T_STARTUP1, T_STARTUP2} THEN "ON"
         ELSE IF up \in {T_OFF, T_STANDBY} THEN "OFF"
         ELSE IF Contains(T_COOL, up) \/ Contains(T_WARM, up) THEN "COOLING"
         ELSE "UNKNOWN"

off_normalize_status(s) ==
    IF ~s.some THEN "UNKNOWN"
    ELSE LET up == ToUpper(Strip(s.val)) IN
         IF up \in {T_ON, T_STARTUP, T_STARTUP1, T_STARTUP2, T_POWER_ON} THEN "ON"
         ELSE IF up \in {T_OFF, T_STANDBY} THEN "OFF"
         ELSE IF Contains(T_COOL, up) \/ Contains(T_WARM, up) THEN "COOLING"
         ELSE "UNKNOWN"

\* slip: COOLING recognised by equality with "COOL" instead of containment
query_normalize_status_exact_cool(s) ==
    IF ~s.some THEN "UNKNOWN"
    ELSE LET up == ToUpper(Strip(s.val)) IN
         IF up \in {T_ON, T_STARTUP, T_STARTUP1, T_STARTUP2, T_POWER_ON} THEN "ON"
         ELSE IF up \in {T_OFF, T_STANDBY} THEN "OFF"
         ELSE IF up = T_COOL \/ up = T_WARM THEN "COOLING"
         ELSE "UNKNOWN"

query_normalize_status(s) ==
    IF ~s.some THEN "UNKNOWN"
    ELSE LET up == ToUpper(Strip(s.val)) IN
         IF up \in {T_ON, T_STARTUP, T_STARTUP1, T_STARTUP2, T_POWER_ON} THEN "ON"
         ELSE IF up \in {T_OFF, T_STANDBY} THEN "OFF"
         ELSE IF Contains(T_COOL, up) \/ Contains(T_WARM, up) THEN "COOLING"
         ELSE "UNKNOWN"

----------------------------------------------------------------------------
(* parse_info_status: STATUS_RE and QUOTED_ITEM_RE computed on characters *)

R_VAR == <<"v","a","r">>
R_NAME == <<"i","n","f","o","_","s","t","a","t","u","s","_","v","a","l","u","e">>

\* html.replace("\r", "").replace("\n", "")
Compact(html) == SelectSeq(html, LAMBDA c : c \notin {"\r", "\n"})

\* the literal lit matches s at position i under re.IGNORECASE
MatchLit(s, i, lit) ==
    /\ i >= 1
    /\ i + Len(lit) - 1 <= Len(s)
    /\ \A k \in 1..Len(lit) : UpperChar(s[i + k - 1]) = UpperChar(lit[k])

\* position after the longest run of \s starting at i
RECURSIVE SkipWs(_, _)
SkipWs(s, i) ==
    IF i <= Len(s) /\ s[i] \in Whitespace THEN SkipWs(s, i + 1) ELSE i

\* position of the first character c at or after i, 0 when there is none
RECURSIVE Find(_, _, _)
Find(s, i, c) ==
    IF i > Len(s) THEN 0
    ELSE IF s[i] = c THEN i ELSE Find(s, i + 1, c)

\* STATUS_RE  var\s+info_status_value\s*=\s*\[([^\]]*)\]  matched at position
\* i of s: Some(group 1), or None when it does not match there
StatusReMatchAt(s, i) ==
    IF ~MatchLit(s, i, R_VAR) THEN None ELSE
    LET p1 == i + Len(R_VAR) IN
    IF ~(p1 <= Len(s) /\ s[p1] \in Whitespace) THEN None ELSE
    LET p2 == SkipWs(s, p1) IN
    IF ~MatchLit(s, p2, R_NAME) THEN None ELSE
    LET p3 == SkipWs(s, p2 + Len(R_NAME)) IN
    IF ~(p3 <= Len(s) /\ s[p3] = "=") THEN None ELSE
    LET p4 == SkipWs(s, p3 + 1) IN
    IF ~(p4 <= Len(s) /\ s[p4] = "[") THEN None ELSE
    LET p5 == Find(s, p4 + 1, "]") IN
    IF p5 = 0 THEN None ELSE Some(SubSeq(s, p4 + 1, p5 - 1))

\* STATUS_RE.search(s): the leftmost match at or after position i
RECURSIVE StatusReSearch(_, _)
StatusReSearch(s, i) ==
    IF i > Len(s) THEN None
    ELSE LET m == StatusReMatchAt(s, i) IN
         IF m.some THEN m ELSE StatusReSearch(s, i + 1)

\* QUOTED_ITEM_RE.findall(s)  '([^']*)'  from position i on
RECURSIVE QuotedFindAll(_, _)
QuotedFindAll(s, i) ==
    LET a == Find(s, i, "'") IN
    IF a = 0 THEN <<>> ELSE
    LET b == Find(s, a + 1, "'") IN
    IF b = 0 THEN <<>>
    ELSE <<SubSeq(s, a + 1, b - 1)>> \o QuotedFindAll(s, b + 1)

\* slip: the last quoted item returned instead of the first
on_parse_info_status_last(html) ==
    LET compact == Compact(html)
        m == StatusReSearch(compact, 1)
    IN  IF ~m.some THEN None
        ELSE LET array_content == m.val
                 items == QuotedFindAll(array_content, 1)
             IN  IF items # <<>> THEN Some(items[Len(items)]) ELSE None

on_parse_info_status(html) ==
    LET compact == Compact(html)
        m == StatusReSearch(compact, 1)
    IN  IF ~m.some THEN None
        ELSE LET array_content == m.val
                 items == QuotedFindAll(array_content, 1)
             IN  IF items # <<>> THEN Some(items[1]) ELSE None

off_parse_info_status(html) ==
    LET compact == Compact(html)
        m == StatusReSearch(compact, 1)
    IN  IF ~m.some THEN None
        ELSE LET items == QuotedFindAll(m.val, 1)
             IN  IF items # <<>> THEN Some(items[1]) ELSE None

----------------------------------------------------------------------------
(* The device's status page and the outcomes of fetch() *)

T_COOLING == T_COOL \o <<"I","N","G">>
T_ERROR == <<"E","R","R","O","R">>

\* "var info_status_value = [" as the device's page writes it
DeclHead == R_VAR \o <<" ">> \o R_NAME \o <<" ","=", " ", "[">>

\* a status page whose array holds the token t first
PageOf(t) ==
    <<"<","s",">","\r","\n">> \o DeclHead \o <<"'">> \o t
        \o <<"'", ",", "'", "x", "'", "]", ";", "\r", "\n">>

\* a page without the declaration, and pages whose array quotes nothing
PageNoDecl == <<"<","s",">","\r","\n","v","a","r"," ","x","=","[","'","O","N","'","]">>
PageEmptyArray == DeclHead \o <<"]", ";">>
PageSplitLines ==
    <<"V","a","r","\t">> \o R_NAME \o <<"\r","\n","=","\r","\n","[","\r","\n","'">>
        \o T_STANDBY \o <<"'", ",", "\r", "\n", "]">>

\* the tokens the modelled device reports
DeviceTokens ==
    {T_ON, ToLower(T_STARTUP2), T_POWER_ON, T_OFF, <<" ">> \o T_STANDBY,
     T_COOLING, T_ERROR}

Pages ==
    {PageOf(t) : t \in DeviceTokens} \cup {PageNoDecl, PageEmptyArray, PageSplitLines}

\* what fetch(url, timeout) does: it raises, or it returns the page's text
FetchRaised == [ok |-> FALSE, html |-> <<>>]
Responses == {FetchRaised} \cup {[ok |-> TRUE, html |-> p] : p \in Pages}

\* get_status with fetch's outcome r
on_get_status(r) ==
    IF ~r.ok THEN "UNKNOWN"
    ELSE on_normalize_status(on_parse_info_status(r.html))

off_get_status(r) ==
    IF ~r.ok THEN "UNKNOWN"
    ELSE off_normalize_status(off_parse_info_status(r.html))

\* get_status over every modelled outcome of fetch
on_status_of == [r \in Responses |-> on_get_status(r)]
off_status_of == [r \in Responses |-> off_get_status(r)]

\* which path get_status took: fetch raised, the page gave no token, or a
\* token reached normalize_status
on_read_kind(r) ==
    IF ~r.ok THEN "raised"
    ELSE IF ~on_parse_info_status(r.html).some THEN "no_token" ELSE "token"

off_read_kind(r) ==
    IF ~r.ok THEN "raised"
    ELSE IF ~off_parse_info_status(r.html).some THEN "no_token" ELSE "token"

on_read_kind_of == [r \in Responses |-> on_read_kind(r)]
off_read_kind_of == [r \in Responses |-> off_read_kind(r)]

----------------------------------------------------------------------------
(* Program constants *)

on_POLL_INTERVAL == 3
on_MAX_WAIT == 90
off_POLL_INTERVAL == 5
off_MAX_WAIT == 180

----------------------------------------------------------------------------
(* Initial state of a power-on or power-off session: main() is entered *)

NormUnset == [on |-> "UNSET", off |-> "UNSET", query |-> "UNSET"]

\* no parse_info_status call has returned yet
Unset == [some |-> FALSE, val |-> <<"?">>]
ParsedUnset == [on |-> Unset, off |-> Unset, query |-> Unset]

Init ==
    /\ prog \in {"on", "off"}
    /\ pc = "status"
    /\ status = "UNSET"
    /\ now = 0
    /\ start = 0
    /\ exitCode = -1
    /\ toggles = 0
    /\ toggleOk = "none"
    /\ initStatus = "UNSET"
    /\ pollReads = 0
    /\ sleeps = 0
    /\ tok = None
    /\ norm = NormUnset
    /\ sawTarget = FALSE
    /\ fetches = 0
    /\ lastRead = "none"
    /\ page = <<>>
    /\ parsed = ParsedUnset
    /\ sess = <<>>
    /\ device = "NONE"
    /\ device0 = "NONE"
    /\ pulses = 0

\* time.time() - start
Elapsed == now - start

----------------------------------------------------------------------------
(* on.py main() *)

\* slip: the test of off.py copied into on.py
on_already_satisfied_as_off(s) == s = "OFF"

\* line 95: the initial status already is the target
on_already_satisfied(s) == s = "ON"

\* slip: the deadline compared with <= instead of <
on_loop_condition_le(elapsed) == elapsed <= on_MAX_WAIT

\* slip: the loop given up one interval before the deadline
on_loop_condition_early(elapsed) == elapsed + on_POLL_INTERVAL < on_MAX_WAIT

\* line 103: the while condition
on_loop_condition(elapsed) == elapsed < on_MAX_WAIT

\* toggle_power(ip): one GET to the toggle URL, whose failure is swallowed
on_toggle_power ==
    \E ok \in BOOLEAN, d \in 0..MaxFetchDelay :
        /\ toggles' = toggles + 1
        /\ toggleOk' = IF ok THEN "ok" ELSE "failed"
        /\ now' = now + d

\* lines 92-97: the initial get_status and the already-ON exit
on_main_status ==
    /\ prog = "on" /\ pc = "status"
    /\ \E r \in Responses, d \in 0..MaxFetchDelay :
        /\ status' = on_status_of[r]
        /\ lastRead' = on_read_kind_of[r]
        /\ now' = now + d
    /\ initStatus' = status'
    /\ IF on_already_satisfied(status')
       THEN pc' = "done" /\ exitCode' = 0
       ELSE pc' = "toggle" /\ exitCode' = exitCode
    /\ fetches' = fetches + 1
    /\ sawTarget' = (sawTarget \/ status' = "ON")
    /\ UNCHANGED <<prog, start, toggles, toggleOk, pollReads, sleeps,
                   PureVars, DeviceVars>>

\* slip: the cooling guard of off.py applied in on.py
on_main_toggle_skip_cooling ==
    /\ prog = "on" /\ pc = "toggle"
    /\ \/ status # "COOLING" /\ on_toggle_power
       \/ status = "COOLING" /\ UNCHANGED <<toggles, toggleOk, now>>
    /\ pc' = "start"
    /\ UNCHANGED <<prog, status, start, exitCode, initStatus, pollReads, sleeps,
                   sawTarget, fetches, lastRead,
                   PureVars, DeviceVars>>

\* lines 99-100: the toggle, sent whatever the non-ON status was
on_main_toggle ==
    /\ prog = "on" /\ pc = "toggle"
    /\ on_toggle_power
    /\ pc' = "start"
    /\ UNCHANGED <<prog, status, start, exitCode, initStatus, pollReads, sleeps,
                   sawTarget, fetches, lastRead,
                   PureVars, DeviceVars>>

\* line 102: start = time.time()
on_main_start ==
    /\ prog = "on" /\ pc = "start"
    /\ start' = now
    /\ pc' = "while"
    /\ UNCHANGED <<prog, status, now, exitCode, toggles, toggleOk, initStatus,
                   pollReads, sleeps, sawTarget, fetches, lastRead,
                   PureVars, DeviceVars>>

\* line 103, and lines 111-112 when the condition is false
on_main_while ==
    /\ prog = "on" /\ pc = "while"
    /\ IF on_loop_condition(Elapsed)
       THEN pc' = "sleep" /\ exitCode' = exitCode
       ELSE pc' = "done" /\ exitCode' = 1
    /\ UNCHANGED <<prog, status, now, start, toggles, toggleOk, initStatus,
                   pollReads, sleeps, sawTarget, fetches, lastRead,
                   PureVars, DeviceVars>>

\* line 104: time.sleep(POLL_INTERVAL) returns after at least the interval
on_main_sleep ==
    /\ prog = "on" /\ pc = "sleep"
    /\ \E lag \in 0..MaxSleepLag : now' = now + on_POLL_INTERVAL + lag
    /\ sleeps' = sleeps + 1
    /\ pc' = "poll"
    /\ UNCHANGED <<prog, status, start, exitCode, toggles, toggleOk, initStatus,
                   pollReads, sawTarget, fetches, lastRead,
                   PureVars, DeviceVars>>

\* slip: the toggle sent again on every poll that does not read ON
on_main_poll_retry ==
    /\ prog = "on" /\ pc = "poll"
    /\ \E r \in Responses, d \in 0..MaxFetchDelay :
        /\ status' = on_status_of[r]
        /\ lastRead' = on_read_kind_of[r]
        /\ now' = now + d
    /\ pollReads' = pollReads + 1
    /\ fetches' = fetches + 1
    /\ sawTarget' = (sawTarget \/ status' = "ON")
    /\ IF status' = "ON"
       THEN pc' = "done" /\ exitCode' = 0 /\ toggles' = toggles
       ELSE pc' = "while" /\ exitCode' = exitCode /\ toggles' = toggles + 1
    /\ UNCHANGED <<prog, start, toggleOk, initStatus, sleeps,
                   PureVars, DeviceVars>>

\* slip: get_status without its try/except, a failing fetch ends the script
on_main_poll_uncaught ==
    /\ prog = "on" /\ pc = "poll"
    /\ \E r \in Responses, d \in 0..MaxFetchDelay :
        /\ status' = on_status_of[r]
        /\ lastRead' = on_read_kind_of[r]
        /\ now' = now + d
    /\ pollReads' = pollReads + 1
    /\ IF lastRead' = "raised"
       THEN pc' = "done" /\ exitCode' = 1
       ELSE IF status' = "ON"
            THEN pc' = "done" /\ exitCode' = 0
            ELSE pc' = "while" /\ exitCode' = exitCode
    /\ fetches' = fetches + 1
    /\ sawTarget' = (sawTarget \/ status' = "ON")
    /\ UNCHANGED <<prog, start, toggles, toggleOk, initStatus, sleeps,
                   PureVars, DeviceVars>>

\* lines 105-109: the poll read and the exit on ON
on_main_poll ==
    /\ prog = "on" /\ pc = "poll"
    /\ \E r \in Responses, d \in 0..MaxFetchDelay :
        /\ status' = on_status_of[r]
        /\ lastRead' = on_read_kind_of[r]
        /\ now' = now + d
    /\ pollReads' = pollReads + 1
    /\ IF status' = "ON"
       THEN pc' = "done" /\ exitCode' = 0
       ELSE pc' = "while" /\ exitCode' = exitCode
    /\ fetches' = fetches + 1
    /\ sawTarget' = (sawTarget \/ status' = "ON")
    /\ UNCHANGED <<prog, start, toggles, toggleOk, initStatus, sleeps,
                   PureVars, DeviceVars>>

----------------------------------------------------------------------------
(* off.py main() *)

\* slip: the test of on.py copied into off.py
off_already_satisfied_as_on(s) == s = "ON"

\* line 84: the initial status already is the target
off_already_satisfied(s) == s = "OFF"

\* slip: the toggle sent for every status but COOLING
off_sends_toggle_unless_cooling(s) == s # "COOLING"

\* slip: the toggle sent while the projector cools down as well
off_sends_toggle_when_cooling(s) == s \in {"ON", "COOLING"}

\* slip: the toggle sent whenever the projector is not yet off
off_sends_toggle_always(s) == TRUE

\* line 93: the only condition under which off.py sends the toggle
off_sends_toggle(s) == s = "ON"

\* slip: the loop given up one interval before the deadline
off_loop_condition_early(elapsed) == elapsed + off_POLL_INTERVAL < off_MAX_WAIT

\* slip: <= in place of < in the loop condition
off_loop_condition_le(elapsed) == elapsed <= off_MAX_WAIT

\* line 99: the while condition
off_loop_condition(elapsed) == elapsed < off_MAX_WAIT

\* toggle_power(ip): one GET to the toggle URL, whose failure is swallowed
off_toggle_power ==
    \E ok \in BOOLEAN, d \in 0..MaxFetchDelay :
        /\ toggles' = toggles + 1
        /\ toggleOk' = IF ok THEN "ok" ELSE "failed"
        /\ now' = now + d

\* lines 81-86: the initial get_status and the already-OFF exit
off_main_status ==
    /\ prog = "off" /\ pc = "status"
    /\ \E r \in Responses, d \in 0..MaxFetchDelay :
        /\ status' = off_status_of[r]
        /\ lastRead' = off_read_kind_of[r]
        /\ now' = now + d
    /\ initStatus' = status'
    /\ IF off_already_satisfied(status')
       THEN pc' = "done" /\ exitCode' = 0
       ELSE pc' = "toggle" /\ exitCode' = exitCode
    /\ fetches' = fetches + 1
    /\ sawTarget' = (sawTarget \/ status' = "OFF")
    /\ UNCHANGED <<prog, start, toggles, toggleOk, pollReads, sleeps,
                   PureVars, DeviceVars>>

\* slip: toggle_power without its try/except, a failing toggle ends the script
off_main_toggle_abort ==
    /\ prog = "off" /\ pc = "toggle"
    /\ \/ off_sends_toggle(status) /\ off_toggle_power
       \/ ~off_sends_toggle(status) /\ UNCHANGED <<toggles, toggleOk, now>>
    /\ IF toggleOk' = "failed"
       THEN pc' = "done" /\ exitCode' = 1
       ELSE pc' = "start" /\ exitCode' = exitCode
    /\ UNCHANGED <<prog, status, start, initStatus, pollReads, sleeps,
                   sawTarget, fetches, lastRead,
                   PureVars, DeviceVars>>

\* lines 88-95: COOLING only prints; the toggle is sent when status is ON
off_main_toggle ==
    /\ prog = "off" /\ pc = "toggle"
    /\ \/ off_sends_toggle(status) /\ off_toggle_power
       \/ ~off_sends_toggle(status) /\ UNCHANGED <<toggles, toggleOk, now>>
    /\ pc' = "start"
    /\ UNCHANGED <<prog, status, start, exitCode, initStatus, pollReads, sleeps,
                   sawTarget, fetches, lastRead,
                   PureVars, DeviceVars>>

\* line 98: start = time.time()
off_main_start ==
    /\ prog = "off" /\ pc = "start"
    /\ start' = now
    /\ pc' = "while"
    /\ UNCHANGED <<prog, status, now, exitCode, toggles, toggleOk, initStatus,
                   pollReads, sleeps, sawTarget, fetches, lastRead,
                   PureVars, DeviceVars>>

\* line 99, and lines 107-108 when the condition is false
off_main_while ==
    /\ prog = "off" /\ pc = "while"
    /\ IF off_loop_condition(Elapsed)
       THEN pc' = "sleep" /\ exitCode' = exitCode
       ELSE pc' = "done" /\ exitCode' = 1
    /\ UNCHANGED <<prog, status, now, start, toggles, toggleOk, initStatus,
                   pollReads, sleeps, sawTarget, fetches, lastRead,
                   PureVars, DeviceVars>>

\* line 100: time.sleep(POLL_INTERVAL) returns after at least the interval
off_main_sleep ==
    /\ prog = "off" /\ pc = "sleep"
    /\ \E lag \in 0..MaxSleepLag : now' = now + off_POLL_INTERVAL + lag
    /\ sleeps' = sleeps + 1
    /\ pc' = "poll"
    /\ UNCHANGED <<prog, status, start, exitCode, toggles, toggleOk, initStatus,
                   pollReads, sawTarget, fetches, lastRead,
                   PureVars, DeviceVars>>

\* slip: get_status without its try/except, a failing fetch ends the script
off_main_poll_uncaught ==
    /\ prog = "off" /\ pc = "poll"
    /\ \E r \in Responses, d \in 0..MaxFetchDelay :
        /\ status' = off_status_of[r]
        /\ lastRead' = off_read_kind_of[r]
        /\ now' = now + d
    /\ pollReads' = pollReads + 1
    /\ IF lastRead' = "raised"
       THEN pc' = "done" /\ exitCode' = 1
       ELSE IF status' = "OFF"
            THEN pc' = "done" /\ exitCode' = 0
            ELSE pc' = "while" /\ exitCode' = exitCode
    /\ fetches' = fetches + 1
    /\ sawTarget' = (sawTarget \/ status' = "OFF")
    /\ UNCHANGED <<prog, start, toggles, toggleOk, initStatus, sleeps,
                   PureVars, DeviceVars>>

\* lines 101-105: the poll read and the exit on OFF
off_main_poll ==
    /\ prog = "off" /\ pc = "poll"
    /\ \E r \in Responses, d \in 0..MaxFetchDelay :
        /\ status' = off_status_of[r]
        /\ lastRead' = off_read_kind_of[r]
        /\ now' = now + d
    /\ pollReads' = pollReads + 1
    /\ IF status' = "OFF"
       THEN pc' = "done" /\ exitCode' = 0
       ELSE pc' = "while" /\ exitCode' = exitCode
    /\ fetches' = fetches + 1
    /\ sawTarget' = (sawTarget \/ status' = "OFF")
    /\ UNCHANGED <<prog, start, toggles, toggleOk, initStatus, sleeps,
                   PureVars, DeviceVars>>

----------------------------------------------------------------------------
(* The sessions *)

Next ==
    \/ on_main_status
    \/ on_main_toggle
    \/ on_main_start
    \/ on_main_while
    \/ on_main_sleep
    \/ on_main_poll
    \/ off_main_status
    \/ off_main_toggle
    \/ off_main_start
    \/ off_main_while
    \/ off_main_sleep
    \/ off_main_poll

Spec == Init /\ [][Next]_vars

\* The scripts are sequential programs: every HTTP call returns or raises
\* within its timeout and every sleep returns, so the next statement of a
\* running main() is eventually executed.
FairSpec == Spec /\ WF_vars(Next)

----------------------------------------------------------------------------
(* normalize_status called directly on a token, in each of the three scripts *)

T_WARMUP == T_WARM \o <<"U","P">>
T_PRECOOL == <<"P","R","E">> \o T_COOL
T_POWERON == <<"P","O","W","E","R","O","N">>
T_POWER__ON == <<"P","O","W","E","R"," "," ","O","N">>
T_ON1 == T_ON \o <<"1">>
T_UNKNOWN == <<"U","N","K","N","O","W","N">>

\* vendor tokens, near misses of them, and the canonical values themselves
Words ==
    {T_ON, T_STARTUP, T_STARTUP1, T_STARTUP2, T_POWER_ON, T_OFF, T_STANDBY,
     T_COOL, T_COOLING, T_WARMUP, T_PRECOOL, T_ERROR, T_POWERON, T_POWER__ON,
     T_ON1, T_UNKNOWN}

\* first character upper case, the rest lower case
Capitalize(w) ==
    [i \in 1..Len(w) |-> IF i = 1 THEN UpperChar(w[i]) ELSE LowerChar(w[i])]

CaseForms(w) == {w, ToLower(w), Capitalize(w)}

\* runs of at most MaxPad whitespace characters
Pads == UNION {[1..k -> Whitespace] : k \in 0..MaxPad}

FreeAlphabet == {"O", "N", "F", "o", "n", " ", "1"}

\* every string of at most MaxFreeLen characters of FreeAlphabet
FreeTokens == UNION {[1..k -> FreeAlphabet] : k \in 0..MaxFreeLen}

\* the arguments normalize_status is called with: None or a string
NormInputs ==
    {None}
        \cup {Some(l \o c \o r) : l \in Pads, r \in Pads,
                                  c \in UNION {CaseForms(w) : w \in Words}}
        \cup {Some(t) : t \in FreeTokens}

InitNorm ==
    /\ prog = "normalize"
    /\ pc = "call"
    /\ tok \in NormInputs
    /\ norm = NormUnset
    /\ status = "UNSET"
    /\ now = 0
    /\ start = 0
    /\ exitCode = -1
    /\ toggles = 0
    /\ toggleOk = "none"
    /\ initStatus = "UNSET"
    /\ pollReads = 0
    /\ sleeps = 0
    /\ sawTarget = FALSE
    /\ fetches = 0
    /\ lastRead = "none"
    /\ page = <<>>
    /\ parsed = ParsedUnset
    /\ sess = <<>>
    /\ device = "NONE"
    /\ device0 = "NONE"
    /\ pulses = 0

SessionVars ==
    <<prog, pc, status, now, start, exitCode, toggles, toggleOk, initStatus,
      pollReads, sleeps, sawTarget, fetches, lastRead>>

\* on.py normalize_status(tok)
on_normalize_call ==
    /\ prog = "normalize" /\ norm.on = "UNSET"
    /\ norm' = [norm EXCEPT !.on = on_normalize_status(tok)]
    /\ UNCHANGED <<tok, page, parsed, SessionVars, DeviceVars>>

\* off.py normalize_status(tok)
off_normalize_call ==
    /\ prog = "normalize" /\ norm.off = "UNSET"
    /\ norm' = [norm EXCEPT !.off = off_normalize_status(tok)]
    /\ UNCHANGED <<tok, page, parsed, SessionVars, DeviceVars>>

\* query.py normalize_status(tok)
query_normalize_call ==
    /\ prog = "normalize" /\ norm.query = "UNSET"
    /\ norm' = [norm EXCEPT !.query = query_normalize_status(tok)]
    /\ UNCHANGED <<tok, page, parsed, SessionVars, DeviceVars>>

NextNorm ==
    \/ on_normalize_call
    \/ off_normalize_call
    \/ query_normalize_call

NormSpec == InitNorm /\ [][NextNorm]_vars

----------------------------------------------------------------------------
(* parse_info_status called directly on a page, in each of the three scripts *)

\* query.py parse_info_status returns (first, items)
query_parse_info_status(html) ==
    LET compact == Compact(html)
        m == StatusReSearch(compact, 1)
    IN  IF ~m.some THEN [first |-> None, items |-> <<>>]
        ELSE LET array_content == m.val
                 items == QuotedFindAll(array_content, 1)
                 first == IF items # <<>> THEN Some(items[1]) ELSE None
             IN  [first |-> first, items |-> items]

\* '<s>\r\n'
PRE_MARKUP ==
    <<"<", "s", ">", "\r", "\n">>

\* "x='q';[1]\r\n"
PRE_SCRIPT ==
    <<"x", "=", "'", "q", "'", ";", "[", "1", "]", "\r", "\n">>

\* 'var info_status_value;'
PRE_NAME_ONLY ==
    <<"v", "a", "r", " ", "i", "n", "f", "o", "_", "s", "t", "a", "t", "u",
      "s", "_", "v", "a", "l", "u", "e", ";">>

\* 'var'
KW_LOWER ==
    <<"v", "a", "r">>

\* 'VAR'
KW_UPPER ==
    <<"V", "A", "R">>

\* 'Var'
KW_MIXED ==
    <<"V", "a", "r">>

\* "'ON'"
IN_ONE ==
    <<"'", "O", "N", "'">>

\* "'STARTUP2','ignored'"
IN_TWO ==
    <<"'", "S", "T", "A", "R", "T", "U", "P", "2", "'", ",", "'", "i", "g",
      "n", "o", "r", "e", "d", "'">>

\* " 'STANDBY' , 'x' , "
IN_SPACED ==
    <<" ", "'", "S", "T", "A", "N", "D", "B", "Y", "'", " ", ",", " ", "'",
      "x", "'", " ", ",", " ">>

\* "1,'OFF'"
IN_NUMBER_FIRST ==
    <<"1", ",", "'", "O", "F", "F", "'">>

\* '"ON"'
IN_DOUBLE_QUOTED ==
    <<"\"", "O", "N", "\"">>

\* "\r\n'COOLING',\r\n'x'\r\n"
IN_LINES ==
    <<"\r", "\n", "'", "C", "O", "O", "L", "I", "N", "G", "'", ",", "\r",
      "\n", "'", "x", "'", "\r", "\n">>

\* "'','ON'"
IN_EMPTY_LITERAL ==
    <<"'", "'", ",", "'", "O", "N", "'">>

\* ";var info_status_value=['Z'];"
POST_SECOND_DECL ==
    <<";", "v", "a", "r", " ", "i", "n", "f", "o", "_", "s", "t", "a", "t",
      "u", "s", "_", "v", "a", "l", "u", "e", "=", "[", "'", "Z", "'", "]",
      ";">>

\* ";'q']"
POST_STRAY ==
    <<";", "'", "q", "'", "]">>

\* "var info_status = ['ON'];"
NO_OTHER_NAME ==
    <<"v", "a", "r", " ", "i", "n", "f", "o", "_", "s", "t", "a", "t", "u",
      "s", " ", "=", " ", "[", "'", "O", "N", "'", "]", ";">>

\* "info_status_value = ['ON'];"
NO_KEYWORD ==
    <<"i", "n", "f", "o", "_", "s", "t", "a", "t", "u", "s", "_", "v", "a",
      "l", "u", "e", " ", "=", " ", "[", "'", "O", "N", "'", "]", ";">>

\* "var info_status_value ['ON'];"
NO_EQUALS ==
    <<"v", "a", "r", " ", "i", "n", "f", "o", "_", "s", "t", "a", "t", "u",
      "s", "_", "v", "a", "l", "u", "e", " ", "[", "'", "O", "N", "'", "]",
      ";">>

\* "var info_status_value = 'ON';"
NO_BRACKETS ==
    <<"v", "a", "r", " ", "i", "n", "f", "o", "_", "s", "t", "a", "t", "u",
      "s", "_", "v", "a", "l", "u", "e", " ", "=", " ", "'", "O", "N", "'",
      ";">>

\* "var info_status_value = ['ON'"
NO_CLOSING ==
    <<"v", "a", "r", " ", "i", "n", "f", "o", "_", "s", "t", "a", "t", "u",
      "s", "_", "v", "a", "l", "u", "e", " ", "=", " ", "[", "'", "O", "N",
      "'">>

\* "var\r\ninfo_status_value = ['ON'];"
NO_GAP_BUT_NEWLINE ==
    <<"v", "a", "r", "\r", "\n", "i", "n", "f", "o", "_", "s", "t", "a", "t",
      "u", "s", "_", "v", "a", "l", "u", "e", " ", "=", " ", "[", "'", "O",
      "N", "'", "]", ";">>

\* "var info_sta\r\ntus_value = [\r\n'ON'];"
SPLIT_NAME ==
    <<"v", "a", "r", " ", "i", "n", "f", "o", "_", "s", "t", "a", "\r", "\n",
      "t", "u", "s", "_", "v", "a", "l", "u", "e", " ", "=", " ", "[", "\r",
      "\n", "'", "O", "N", "'", "]", ";">>

\* text before the declaration: nothing, markup ending a line, script text
\* with quotes and brackets of its own, the name without an array
CasePre ==
    {<<>>,
     PRE_MARKUP,
     PRE_SCRIPT,
     PRE_NAME_ONLY}

\* the keyword as written, the whitespace after it, and the text around "="
CaseKeyword == {KW_LOWER, KW_UPPER, KW_MIXED}
CaseGap == {<<" ">>, <<"\t">>, <<" ", " ">>}
CaseEquals == {<<"=">>, <<" ", "=", " ">>, <<" ", "=", "\r", "\n", " ">>}

\* what stands between the brackets, with the first single-quoted literal
\* it holds (None when it holds none)
CaseArray ==
    {[inner |-> <<>>, first |-> None],
     [inner |-> IN_ONE, first |-> Some(T_ON)],
     [inner |-> IN_TWO, first |-> Some(T_STARTUP2)],
     [inner |-> IN_SPACED, first |-> Some(T_STANDBY)],
     [inner |-> IN_NUMBER_FIRST, first |-> Some(T_OFF)],
     [inner |-> IN_DOUBLE_QUOTED, first |-> None],
     [inner |-> IN_LINES, first |-> Some(T_COOLING)],
     [inner |-> IN_EMPTY_LITERAL, first |-> Some(<<>>)]}

\* text after the declaration: nothing, a second declaration, stray quotes
CasePost ==
    {<<>>,
     POST_SECOND_DECL,
     POST_STRAY}

\* pages holding a declaration, each with the token its first declaration
\* holds first
DeclCases ==
    {[text |-> pre \o kw \o gap \o R_NAME \o eq \o <<"[">> \o a.inner
                   \o <<"]">> \o post,
      first |-> a.first] :
        pre \in CasePre, kw \in CaseKeyword, gap \in CaseGap,
        eq \in CaseEquals, a \in CaseArray, post \in CasePost}

\* pages without a declaration STATUS_RE matches once CR and LF are removed
NoDeclCases ==
    {[text |-> t, first |-> None] :
        t \in {<<>>, PRE_MARKUP, NO_OTHER_NAME, NO_KEYWORD, NO_EQUALS,
               NO_BRACKETS, NO_CLOSING, NO_GAP_BUT_NEWLINE}}

\* pages whose declaration is broken over lines inside the name
SplitCases ==
    {[text |-> SPLIT_NAME, first |-> Some(T_ON)]}

ParseCases == DeclCases \cup NoDeclCases \cup SplitCases

InitParse ==
    /\ prog = "parse"
    /\ pc = "call"
    /\ page \in {c.text : c \in ParseCases}
    /\ parsed = ParsedUnset
    /\ tok = None
    /\ norm = NormUnset
    /\ status = "UNSET"
    /\ now = 0
    /\ start = 0
    /\ exitCode = -1
    /\ toggles = 0
    /\ toggleOk = "none"
    /\ initStatus = "UNSET"
    /\ pollReads = 0
    /\ sleeps = 0
    /\ sawTarget = FALSE
    /\ fetches = 0
    /\ lastRead = "none"
    /\ sess = <<>>
    /\ device = "NONE"
    /\ device0 = "NONE"
    /\ pulses = 0

\* on.py parse_info_status(page)
on_parse_call ==
    /\ prog = "parse" /\ parsed.on = Unset
    /\ parsed' = [parsed EXCEPT !.on = on_parse_info_status(page)]
    /\ UNCHANGED <<tok, norm, page, SessionVars, DeviceVars>>

\* off.py parse_info_status(page)
off_parse_call ==
    /\ prog = "parse" /\ parsed.off = Unset
    /\ parsed' = [parsed EXCEPT !.off = off_parse_info_status(page)]
    /\ UNCHANGED <<tok, norm, page, SessionVars, DeviceVars>>

\* query.py parse_info_status(page)[0]
query_parse_call ==
    /\ prog = "parse" /\ parsed.query = Unset
    /\ parsed' = [parsed EXCEPT !.query = query_parse_info_status(page).first]
    /\ UNCHANGED <<tok, norm, page, SessionVars, DeviceVars>>

NextParse ==
    \/ on_parse_call
    \/ off_parse_call
    \/ query_parse_call

ParseSpec == InitParse /\ [][NextParse]_vars

----------------------------------------------------------------------------
(* query.py main() *)

\* the ways the GET of fetch() fails
FetchFailures ==
    {"connection_refused", "dns_failure", "connect_timeout",
     "http_error_status", "read_timeout"}

\* the exception fetch() raises: urlopen wraps the errors of connecting and
\* sending in URLError and raises HTTPError for an error status; a timeout
\* while the response is read (resp.read(), line 29) is raised as it is
RaisedBy(failure) ==
    CASE failure \in {"connection_refused", "dns_failure", "connect_timeout"}
            -> "URLError"
      [] failure = "http_error_status" -> "HTTPError"
      [] failure = "read_timeout" -> "TimeoutError"

\* line 75: except (urllib.error.URLError, urllib.error.HTTPError)
query_caught(exc) == exc \in {"URLError", "HTTPError"}

\* lines 96-102
query_exit_code(st) ==
    IF st = "ON" THEN 0
    ELSE IF st = "OFF" THEN 2
    ELSE IF st = "COOLING" THEN 3
    ELSE 4

\* the pages the status URL may return
QueryPages == Pages \cup {c.text : c \in ParseCases}

InitQuery ==
    /\ prog = "query"
    /\ pc = "fetch"
    /\ page = <<>>
    /\ parsed = ParsedUnset
    /\ tok = None
    /\ norm = NormUnset
    /\ status = "UNSET"
    /\ now = 0
    /\ start = 0
    /\ exitCode = -1
    /\ toggles = 0
    /\ toggleOk = "none"
    /\ initStatus = "UNSET"
    /\ pollReads = 0
    /\ sleeps = 0
    /\ sawTarget = FALSE
    /\ fetches = 0
    /\ lastRead = "none"
    /\ sess = <<>>
    /\ device = "NONE"
    /\ device0 = "NONE"
    /\ pulses = 0

\* slip: an UNKNOWN reading fetched again instead of reported
query_main_exit_retry ==
    /\ prog = "query" /\ pc = "exit"
    /\ IF status = "UNKNOWN"
       THEN pc' = "fetch" /\ exitCode' = exitCode
       ELSE pc' = "done" /\ exitCode' = query_exit_code(status)
    /\ UNCHANGED <<prog, status, now, start, toggles, toggleOk, initStatus,
                   pollReads, sleeps, sawTarget, fetches, lastRead,
                   PureVars, DeviceVars>>

\* lines 73-79: fetch returns the page, or raises; only URLError and
\* HTTPError are caught and end in sys.exit(4), any other exception leaves
\* main() uncaught and the interpreter exits with a traceback and status 1
query_main_fetch ==
    /\ prog = "query" /\ pc = "fetch"
    /\ fetches' = fetches + 1
    /\ \/ \E p \in QueryPages :
            /\ page' = p
            /\ lastRead' = "fetched"
            /\ pc' = "parse"
            /\ exitCode' = exitCode
       \/ \E failure \in FetchFailures :
            /\ page' = page
            /\ lastRead' = RaisedBy(failure)
            /\ pc' = "done"
            /\ exitCode' = IF query_caught(RaisedBy(failure)) THEN 4 ELSE 1
    /\ UNCHANGED <<prog, status, now, start, toggles, toggleOk, initStatus,
                   pollReads, sleeps, sawTarget, tok, norm, parsed,
                   DeviceVars>>

\* lines 81-82: first, items = parse_info_status(html);
\* status = normalize_status(first)
query_main_parse ==
    /\ prog = "query" /\ pc = "parse"
    /\ LET first == query_parse_info_status(page).first IN
        /\ tok' = first
        /\ status' = query_normalize_status(first)
        /\ lastRead' = IF first.some THEN "token" ELSE "no_token"
    /\ pc' = "exit"
    /\ UNCHANGED <<prog, now, start, exitCode, toggles, toggleOk, initStatus,
                   pollReads, sleeps, sawTarget, fetches, norm, page, parsed,
                   DeviceVars>>

\* lines 93-102: print(status) and the exit code of the status
query_main_exit ==
    /\ prog = "query" /\ pc = "exit"
    /\ pc' = "done"
    /\ exitCode' = query_exit_code(status)
    /\ UNCHANGED <<prog, status, now, start, toggles, toggleOk, initStatus,
                   pollReads, sleeps, sawTarget, fetches, lastRead,
                   PureVars, DeviceVars>>

NextQuery ==
    \/ query_main_fetch
    \/ query_main_parse
    \/ query_main_exit

QuerySpec == InitQuery /\ [][NextQuery]_vars

----------------------------------------------------------------------------
(* Sessions of on.py and off.py that share one projector.  A step here is   *)
(* one HTTP exchange with the projector together with the statements of     *)
(* main() that follow it up to the next exchange; a sleep lasts exactly its *)
(* interval and an exchange takes no time.                                  *)

\* the tokens the projector's status page shows in each power state
DevicePageTokens(d) ==
    CASE d = "ON" -> {T_ON, ToLower(T_STARTUP2), T_POWER_ON}
      [] d = "OFF" -> {T_OFF, <<" ">> \o T_STANDBY}
      [] d = "COOLING" -> {T_COOLING}

\* what fetch of the status URL does while the projector is in state d
DeviceResponses(d) ==
    {FetchRaised} \cup {[ok |-> TRUE, html |-> PageOf(t)] : t \in DevicePageTokens(d)}

\* the power states a toggle pulse leaves the projector in: a projector that
\* is on starts cooling down, one in standby is switched on, and a pulse
\* during cool-down switches it on again or is ignored
DevicePulse(d) ==
    CASE d = "ON" -> {"COOLING"}
      [] d = "OFF" -> {"ON"}
      [] d = "COOLING" -> {"ON", "COOLING"}

\* the GET of the toggle URL reaches the projector, or it is lost
DeliverToggle ==
    \/ pulses' = pulses + 1 /\ device' \in DevicePulse(device)
    \/ UNCHANGED <<device, pulses>>

\* a process that has just entered main() of script pr
NewSession(pr) ==
    [prog |-> pr, pc |-> "status", status |-> "UNSET", init |-> "UNSET",
     elapsed |-> 0, toggles |-> 0, exit |-> -1]

\* the scripts started against the projector, in order of their process ids
Scenarios == {<<"on">>, <<"off">>, <<"off", "off">>}

InitDevice ==
    /\ prog = "device"
    /\ pc = "run"
    /\ \E sc \in Scenarios : sess = [p \in DOMAIN sc |-> NewSession(sc[p])]
    /\ device0 \in {"ON", "OFF", "COOLING"}
    /\ device = device0
    /\ pulses = 0
    /\ page = <<>>
    /\ parsed = ParsedUnset
    /\ tok = None
    /\ norm = NormUnset
    /\ status = "UNSET"
    /\ now = 0
    /\ start = 0
    /\ exitCode = -1
    /\ toggles = 0
    /\ toggleOk = "none"
    /\ initStatus = "UNSET"
    /\ pollReads = 0
    /\ sleeps = 0
    /\ sawTarget = FALSE
    /\ fetches = 0
    /\ lastRead = "none"

\* on.py lines 92-97: the initial get_status and the already-ON exit
on_session_status ==
    \E p \in DOMAIN sess :
        /\ prog = "device" /\ sess[p].prog = "on" /\ sess[p].pc = "status"
        /\ \E r \in DeviceResponses(device) :
            LET s == on_status_of[r] IN
            sess' = [sess EXCEPT
                        ![p].status = s,
                        ![p].init = s,
                        ![p].pc = IF on_already_satisfied(s) THEN "done" ELSE "toggle",
                        ![p].exit = IF on_already_satisfied(s) THEN 0 ELSE -1]
        /\ UNCHANGED <<device, device0, pulses, SessionVars, PureVars>>

\* on.py lines 99-104: the toggle, start, the first loop condition and sleep
on_session_toggle ==
    \E p \in DOMAIN sess :
        /\ prog = "device" /\ sess[p].prog = "on" /\ sess[p].pc = "toggle"
        /\ DeliverToggle
        /\ sess' = [sess EXCEPT
                        ![p].toggles = @ + 1,
                        ![p].elapsed = IF on_loop_condition(0)
                                       THEN on_POLL_INTERVAL ELSE 0,
                        ![p].pc = IF on_loop_condition(0) THEN "poll" ELSE "done",
                        ![p].exit = IF on_loop_condition(0) THEN -1 ELSE 1]
        /\ UNCHANGED <<device0, SessionVars, PureVars>>

\* on.py lines 105-112 and 103-104: the poll read, the exit on ON, the loop
\* condition, and the next sleep or the timeout exit
on_session_poll ==
    \E p \in DOMAIN sess :
        /\ prog = "device" /\ sess[p].prog = "on" /\ sess[p].pc = "poll"
        /\ \E r \in DeviceResponses(device) :
            LET s == on_status_of[r]
                e == sess[p].elapsed
            IN  sess' = [sess EXCEPT
                            ![p].status = s,
                            ![p].pc = IF s # "ON" /\ on_loop_condition(e)
                                      THEN "poll" ELSE "done",
                            ![p].elapsed = IF s # "ON" /\ on_loop_condition(e)
                                           THEN e + on_POLL_INTERVAL ELSE e,
                            ![p].exit = IF s = "ON" THEN 0
                                        ELSE IF on_loop_condition(e) THEN -1 ELSE 1]
        /\ UNCHANGED <<device, device0, pulses, SessionVars, PureVars>>

\* off.py lines 81-86: the initial get_status and the already-OFF exit
off_session_status ==
    \E p \in DOMAIN sess :
        /\ prog = "device" /\ sess[p].prog = "off" /\ sess[p].pc = "status"
        /\ \E r \in DeviceResponses(device) :
            LET s == off_status_of[r] IN
            sess' = [sess EXCEPT
                        ![p].status = s,
                        ![p].init = s,
                        ![p].pc = IF off_already_satisfied(s) THEN "done" ELSE "toggle",
                        ![p].exit = IF off_already_satisfied(s) THEN 0 ELSE -1]
        /\ UNCHANGED <<device, device0, pulses, SessionVars, PureVars>>

\* off.py lines 88-100: the toggle when the status is ON, start, the first
\* loop condition and sleep
off_session_toggle ==
    \E p \in DOMAIN sess :
        /\ prog = "device" /\ sess[p].prog = "off" /\ sess[p].pc = "toggle"
        /\ IF off_sends_toggle(sess[p].status)
           THEN DeliverToggle
           ELSE UNCHANGED <<device, pulses>>
        /\ sess' = [sess EXCEPT
                        ![p].toggles = IF off_sends_toggle(sess[p].status)
                                       THEN @ + 1 ELSE @,
                        ![p].elapsed = IF off_loop_condition(0)
                                       THEN off_POLL_INTERVAL ELSE 0,
                        ![p].pc = IF off_loop_condition(0) THEN "poll" ELSE "done",
                        ![p].exit = IF off_loop_condition(0) THEN -1 ELSE 1]
        /\ UNCHANGED <<device0, SessionVars, PureVars>>

\* off.py lines 101-108 and 99-100: the poll read, the exit on OFF, the loop
\* condition, and the next sleep or the timeout exit
off_session_poll ==
    \E p \in DOMAIN sess :
        /\ prog = "device" /\ sess[p].prog = "off" /\ sess[p].pc = "poll"
        /\ \E r \in DeviceResponses(device) :
            LET s == off_status_of[r]
                e == sess[p].elapsed
            IN  sess' = [sess EXCEPT
                            ![p].status = s,
                            ![p].pc = IF s # "OFF" /\ off_loop_condition(e)
                                      THEN "poll" ELSE "done",
                            ![p].elapsed = IF s # "OFF" /\ off_loop_condition(e)
                                           THEN e + off_POLL_INTERVAL ELSE e,
                            ![p].exit = IF s = "OFF" THEN 0
                                        ELSE IF off_loop_condition(e) THEN -1 ELSE 1]
        /\ UNCHANGED <<device, device0, pulses, SessionVars, PureVars>>

\* the projector finishes cooling down and goes to standby
device_settle ==
    /\ prog = "device" /\ device = "COOLING"
    /\ device' = "OFF"
    /\ UNCHANGED <<sess, device0, pulses, SessionVars, PureVars>>

NextDevice ==
    \/ on_session_status
    \/ on_session_toggle
    \/ on_session_poll
    \/ off_session_status
    \/ off_session_toggle
    \/ off_session_poll
    \/ device_settle

DeviceSpec == InitDevice /\ [][NextDevice]_vars

----------------------------------------------------------------------------
(* Properties of the power-off and power-on sessions *)

\* positions of main() after the toggle decision has been carried out
AfterToggle == {"start", "while", "sleep", "poll", "done"}

\* positions of main() inside or after the polling loop
InLoop == {"while", "sleep", "poll", "done"}

\* C1 (as stated): in off.py, when the initial status is ON or UNKNOWN, one
\* toggle has been sent once the toggle decision is behind, and the session
\* does not end without a sleep and a poll read.
C1_OffTogglesOnOnOrUnknown ==
    (prog = "off" /\ initStatus \in {"ON", "UNKNOWN"}) =>
        /\ pc = "toggle" => toggles = 0
        /\ pc \in AfterToggle => toggles = 1
        /\ pollReads <= sleeps
        /\ pc = "done" => pollReads >= 1

\* C1 (amended): in off.py, when the initial status is ON exactly one toggle
\* is sent, after the initial read and before the first poll read; when it is
\* UNKNOWN no toggle is ever sent; in both cases the session goes on to the
\* polling loop and does not end without a sleep and a poll read.
C1_OffTogglesOnlyOnOn ==
    /\ (prog = "off" /\ initStatus = "ON") =>
        /\ pc = "toggle" => toggles = 0
        /\ pc \in AfterToggle => toggles = 1
    /\ (prog = "off" /\ initStatus = "UNKNOWN") => toggles = 0
    /\ (prog = "off" /\ initStatus \in {"ON", "UNKNOWN"}) =>
        /\ pollReads <= sleeps
        /\ pc = "done" => pollReads >= 1

C1_Witness ==
    /\ prog = "off" /\ initStatus = "ON"
    /\ pc = "poll" /\ pollReads = 0 /\ toggles = 1

\* C2: in off.py, when the initial status is COOLING no toggle is ever sent,
\* whatever the poll reads return, and the session does not end before it
\* has slept and then read the status again.
C2_OffCoolingNeverToggles ==
    (prog = "off" /\ initStatus = "COOLING") =>
        /\ toggles = 0
        /\ toggleOk = "none"
        /\ pollReads <= sleeps
        /\ pc = "done" => (sleeps >= 1 /\ pollReads >= 1)

C2_Witness ==
    /\ prog = "off" /\ initStatus = "COOLING"
    /\ pollReads >= 2 /\ status = "ON" /\ toggles = 0

\* C3: in off.py, when the initial status is OFF the session has ended with
\* exit code 0, having sent no toggle, slept never and read the status once.
C3_OffAlreadyOff ==
    (prog = "off" /\ initStatus = "OFF") =>
        /\ pc = "done" /\ exitCode = 0
        /\ toggles = 0 /\ sleeps = 0 /\ pollReads = 0

C3_Witness ==
    prog = "off" /\ initStatus = "OFF" /\ pc = "done" /\ exitCode = 0

C5_OnAlreadyOn ==
    (prog = "on" /\ initStatus = "ON") =>
        /\ pc = "done" /\ exitCode = 0
        /\ toggles = 0 /\ sleeps = 0 /\ pollReads = 0

C5_Witness ==
    prog = "on" /\ initStatus = "ON" /\ pc = "done" /\ exitCode = 0

\* C7: a session never has sent more than one toggle, and no step taken once
\* the polling loop is entered sends one.
C7_SingleToggleNoRetry ==
    /\ [](toggles <= 1)
    /\ [][(pc \in InLoop) => (toggles' = toggles)]_vars

C7_Witness ==
    pc = "done" /\ exitCode = 1 /\ toggles = 1 /\ pollReads >= 2

\* a poll read of on.py returned ON, no earlier read having done so
OnConvergedAtPoll ==
    prog = "on" /\ initStatus # "ON" /\ pollReads >= 1 /\ status = "ON"

\* C8 (as stated): in on.py, when ON first appears at a poll read, one toggle
\* was sent, the session ends there with exit code 0, and the time elapsed
\* since polling started does not exceed MAX_WAIT.
C8_OnConvergesWithinMaxWait ==
    OnConvergedAtPoll =>
        /\ toggles = 1
        /\ pc = "done" /\ exitCode = 0
        /\ Elapsed <= on_MAX_WAIT

\* C8 (amended): in on.py, when ON first appears at a poll read, one toggle
\* was sent and the session ends there with exit code 0; the loop condition
\* admitted that iteration before MAX_WAIT had elapsed, so the time elapsed at
\* success is less than MAX_WAIT plus the duration of one sleep and one
\* status fetch.
C8_OnConvergesWithinOneTick ==
    OnConvergedAtPoll =>
        /\ toggles = 1
        /\ pc = "done" /\ exitCode = 0
        /\ Elapsed < on_MAX_WAIT + on_POLL_INTERVAL + MaxSleepLag + MaxFetchDelay

C8_Witness ==
    /\ OnConvergedAtPoll /\ initStatus = "OFF" /\ pollReads = 2
    /\ pc = "done" /\ exitCode = 0 /\ toggles = 1

Exited == pc = "done"

\* the target state and the deadline of the running session
Target == IF prog = "on" THEN "ON" ELSE "OFF"
MaxWait == IF prog = "on" THEN on_MAX_WAIT ELSE off_MAX_WAIT

\* C10: a session that has exited did so with code 0 or 1; with 0 exactly
\* when its last status read equals the target, with 1 exactly when the loop
\* condition failed (MAX_WAIT elapsed) and no read returned the target; a
\* running session has no exit code.
C10_ExitCodes ==
    /\ ~Exited => exitCode = -1
    /\ Exited =>
        /\ exitCode \in {0, 1}
        /\ exitCode = 0 <=> status = Target
        /\ exitCode = 1 <=> (Elapsed >= MaxWait /\ pollReads >= 1 /\ ~sawTarget)
        /\ sawTarget <=> status = Target

C10_Witness ==
    /\ prog = "off" /\ Exited /\ exitCode = 1
    /\ status = "COOLING" /\ Elapsed >= off_MAX_WAIT

\* the latest status read gave no usable token: fetch raised, or the page
\* held no declaration or no quoted item
Degraded == lastRead \in {"raised", "no_token"}

\* C12: a poll read of on.py or off.py whose fetch fails or whose page cannot
\* be parsed gives UNKNOWN and leaves the session running at the loop
\* condition; the session then ends only by the deadline, and a later poll
\* read that returns the target ends it with exit code 0.
C12_DegradedPollReadIsUnknown ==
    /\ [](Degraded =>
            /\ status = "UNKNOWN"
            /\ pc = "done" => (exitCode = 1 /\ Elapsed >= MaxWait))
    /\ [][(pc = "poll" /\ Degraded') =>
            (pc' = "while" /\ exitCode' = -1 /\ toggles' = toggles)]_vars
    /\ [][(pc = "poll" /\ pollReads >= 1 /\ Degraded /\ status' = Target) =>
            (pc' = "done" /\ exitCode' = 0)]_vars

\* a poll read failed, the loop went on, slept, and is about to read again
C12_Witness ==
    /\ pc = "poll" /\ pollReads >= 1 /\ sleeps >= 2
    /\ lastRead = "raised" /\ status = "UNKNOWN" /\ exitCode = -1

\* C13: a session whose toggle request failed is in the polling loop or past
\* it, having sent that one toggle, and does not end without a poll read; the
\* toggle step goes to the start of polling whatever the request's result,
\* and from there each step's successor position is fixed by the elapsed time
\* and the status just read alone, the toggle's result being left as it was.
C13_ToggleFailureIsIgnored ==
    /\ [](toggleOk = "failed" =>
            /\ toggles = 1 /\ pc \in AfterToggle
            /\ Exited => (pollReads >= 1 /\ sleeps >= 1)
            /\ Exited => exitCode = (IF status = Target THEN 0 ELSE 1))
    /\ [][(pc = "toggle") =>
            (pc' = "start" /\ exitCode' = -1 /\ status' = status)]_vars
    /\ [][(pc = "start") => (pc' = "while" /\ start' = now)]_vars
    /\ [][(pc = "while") =>
            /\ pc' = (IF Elapsed < MaxWait THEN "sleep" ELSE "done")
            /\ exitCode' = (IF Elapsed < MaxWait THEN -1 ELSE 1)]_vars
    /\ [][(pc = "sleep") => (pc' = "poll" /\ sleeps' = sleeps + 1)]_vars
    /\ [][(pc = "poll") =>
            /\ pollReads' = pollReads + 1
            /\ pc' = (IF status' = Target THEN "done" ELSE "while")
            /\ exitCode' = (IF status' = Target THEN 0 ELSE -1)]_vars
    /\ [][(pc \in AfterToggle) => (toggleOk' = toggleOk)]_vars

\* the toggle request failed and the session still converged at its second
\* poll read
C13_Witness ==
    /\ toggleOk = "failed" /\ toggles = 1
    /\ Exited /\ exitCode = 0 /\ pollReads = 2 /\ status = Target

\* the three ways a session ends
AlreadySatisfied ==
    /\ exitCode = 0 /\ initStatus = Target
    /\ toggles = 0 /\ sleeps = 0 /\ pollReads = 0

ConvergedAfterAction ==
    /\ exitCode = 0 /\ initStatus # Target
    /\ pollReads >= 1 /\ status = Target

TimedOut ==
    /\ exitCode = 1 /\ initStatus # Target
    /\ pollReads >= 1 /\ status # Target /\ ~sawTarget /\ Elapsed >= MaxWait

\* C15: every session of on.py and off.py ends, whatever its status reads
\* return and whether or not its fetches and its toggle fail, and when it has
\* ended it is in exactly one of three cases: already satisfied, converged
\* at a poll read, timed out.
C15_SessionsTerminate ==
    /\ <>Exited
    /\ [](Exited => (AlreadySatisfied \/ ConvergedAfterAction \/ TimedOut))
    /\ [](exitCode \in {-1, 0, 1})

\* every fetch raised and the toggle request failed; the session timed out
C15_Witness ==
    /\ prog = "on" /\ Exited /\ TimedOut
    /\ toggleOk = "failed" /\ initStatus = "UNKNOWN" /\ lastRead = "raised"

\* the polling interval of the running session
PollInterval == IF prog = "on" THEN on_POLL_INTERVAL ELSE off_POLL_INTERVAL

\* C18: a session has never made more poll reads than sleeps; by every poll
\* read at least one interval per read has elapsed since polling started,
\* the first read included; so the reads of a session number at most
\* MAX_WAIT divided by POLL_INTERVAL, 36 in off.py and 30 in on.py.
C18_PollReadsBounded ==
    /\ pollReads <= sleeps /\ sleeps <= pollReads + 1
    /\ pc = "poll" =>
        (sleeps = pollReads + 1 /\ Elapsed >= PollInterval * sleeps)
    /\ pollReads >= 1 => Elapsed >= PollInterval * pollReads
    /\ pollReads <= MaxWait \div PollInterval
    /\ prog = "off" => pollReads <= 36
    /\ prog = "on" => pollReads <= 30

\* off.py made its 36th poll read
C18_Witness ==
    prog = "off" /\ pollReads = 36 /\ sleeps = 36 /\ pc = "while"

----------------------------------------------------------------------------
(* Properties of normalize_status *)

\* the mapping the specification gives for vendor tokens
RefNormalize(t) ==
    IF ~t.some THEN "UNKNOWN"
    ELSE LET up == ToUpper(Strip(t.val)) IN
         IF up \in {T_ON, T_STARTUP, T_STARTUP1, T_STARTUP2, T_POWER_ON} THEN "ON"
         ELSE IF up \in {T_OFF, T_STANDBY} THEN "OFF"
         ELSE IF Contains(T_COOL, up) \/ Contains(T_WARM, up) THEN "COOLING"
         ELSE "UNKNOWN"

\* C6: each of the three normalize_status implementations returns, on every
\* token and on the absent token, what the reference mapping gives.
C6_NormalizeAgreesWithReference ==
    prog = "normalize" =>
        \A k \in {"on", "off", "query"} :
            norm[k] # "UNSET" => norm[k] = RefNormalize(tok)

\* the four values normalize_status returns, and each written as a token
Canonical == {"ON", "OFF", "COOLING", "UNKNOWN"}

CanonicalToken(v) ==
    CASE v = "ON" -> T_ON
      [] v = "OFF" -> T_OFF
      [] v = "COOLING" -> T_COOLING
      [] v = "UNKNOWN" -> T_UNKNOWN

\* C14: each normalize_status returns, on every token and on the absent
\* token, one of ON, OFF, COOLING, UNKNOWN; called on one of these four it
\* returns it, so that normalizing a result again changes nothing.
C14_NormalizeTotalIdempotent ==
    prog = "normalize" =>
        /\ norm.on # "UNSET" =>
            /\ norm.on \in Canonical
            /\ on_normalize_status(Some(CanonicalToken(norm.on))) = norm.on
        /\ norm.off # "UNSET" =>
            /\ norm.off \in Canonical
            /\ off_normalize_status(Some(CanonicalToken(norm.off))) = norm.off
        /\ norm.query # "UNSET" =>
            /\ norm.query \in Canonical
            /\ query_normalize_status(Some(CanonicalToken(norm.query)))
                    = norm.query
        /\ \A v \in Canonical, k \in {"on", "off", "query"} :
            (tok = Some(CanonicalToken(v)) /\ norm[k] # "UNSET") => norm[k] = v

\* the canonical value COOLING, matched by containment, came back from all
\* three implementations
C14_Witness ==
    /\ prog = "normalize" /\ tok = Some(T_COOLING)
    /\ norm = [on |-> "COOLING", off |-> "COOLING", query |-> "COOLING"]

----------------------------------------------------------------------------
(* Properties of parse_info_status *)

\* C16: parse_info_status returns the first single-quoted literal between the
\* brackets of the first declaration found once CR and LF are removed, that
\* one token only when the array holds several, and no token when there is
\* no declaration or its brackets hold no single-quoted literal; no token
\* normalizes to UNKNOWN.
C16_ParseReturnsFirstQuoted ==
    prog = "parse" =>
        /\ \A k \in {"on", "off", "query"} :
            parsed[k] # Unset => [text |-> page, first |-> parsed[k]] \in ParseCases
        /\ (parsed.on # Unset /\ ~parsed.on.some) =>
                on_normalize_status(parsed.on) = "UNKNOWN"
        /\ (parsed.off # Unset /\ ~parsed.off.some) =>
                off_normalize_status(parsed.off) = "UNKNOWN"
        /\ (parsed.query # Unset /\ ~parsed.query.some) =>
                query_normalize_status(parsed.query) = "UNKNOWN"

\* the array holds two items and is followed by a second declaration; all
\* three implementations returned the first item of the first
C16_Witness ==
    /\ prog = "parse"
    /\ page = PRE_MARKUP \o KW_LOWER \o <<" ">> \o R_NAME \o <<" ", "=", " ">>
                \o <<"[">> \o IN_TWO \o <<"]">> \o POST_SECOND_DECL
    /\ parsed = [on |-> Some(T_STARTUP2), off |-> Some(T_STARTUP2),
                 query |-> Some(T_STARTUP2)]

----------------------------------------------------------------------------
(* Properties of the status query *)

\* C11: query.py ends with exit code 0 for ON, 2 for OFF, 3 for COOLING and 4
\* for UNKNOWN, and every failure of the fetch ends in exit code 4.
C11_QueryExitCodes ==
    (prog = "query" /\ pc = "done") =>
        /\ exitCode \in {0, 2, 3, 4}
        /\ status = "ON" => exitCode = 0
        /\ status = "OFF" => exitCode = 2
        /\ status = "COOLING" => exitCode = 3
        /\ status = "UNKNOWN" => exitCode = 4
        /\ status = "UNSET" => exitCode = 4

\* C17: a run of query.py never sends a toggle, fetches the status exactly
\* once, normalizes once and then exits.
C17_QueryFetchesOnceNeverToggles ==
    prog = "query" =>
        /\ toggles = 0 /\ toggleOk = "none"
        /\ fetches <= 1
        /\ pc # "fetch" => fetches = 1
        /\ pc \in {"fetch", "parse"} => status = "UNSET"
        /\ (pc = "done" /\ status # "UNSET") => exitCode = query_exit_code(status)

C17_Witness ==
    /\ prog = "query" /\ pc = "done" /\ status = "UNKNOWN" /\ lastRead = "token"
    /\ fetches = 1 /\ toggles = 0 /\ exitCode = 4

----------------------------------------------------------------------------
(* Properties of sessions that share one projector *)

\* one session of on.py runs against a projector that was on when it began
OneOnSessionDeviceOn ==
    /\ prog = "device" /\ Len(sess) = 1 /\ sess[1].prog = "on"
    /\ device0 = "ON"

\* C19: a session of on.py started against a projector that is on sends no
\* toggle, whatever its initial status read returns, and the projector stays
\* on.
C19_OnSessionKeepsDeviceOn ==
    OneOnSessionDeviceOn => (sess[1].toggles = 0 /\ pulses = 0 /\ device = "ON")

\* two sessions of off.py run against a projector that was on when they began
TwoOffSessionsDeviceOn ==
    /\ prog = "device" /\ Len(sess) = 2
    /\ sess[1].prog = "off" /\ sess[2].prog = "off"
    /\ device0 = "ON"

\* C20 (as stated): with two concurrent sessions of off.py the projector
\* receives at most one toggle pulse and is not switched on again.
C20_AtMostOnePulse ==
    TwoOffSessionsDeviceOn =>
        /\ pulses <= 1
        /\ pulses >= 1 => device # "ON"

\* C20 (amended): each of the two sessions sends at most one toggle and only
\* after its own initial status read returned ON, so the projector receives
\* at most two pulses; it receives two only when both sessions read ON, and
\* it is on again after a pulse only when it has received both.
C20_AtMostOnePulseEach ==
    TwoOffSessionsDeviceOn =>
        /\ \A p \in {1, 2} :
            /\ sess[p].toggles <= 1
            /\ sess[p].pc \in {"status", "toggle"} => sess[p].toggles = 0
            /\ sess[p].toggles = 1 => sess[p].init = "ON"
        /\ pulses <= sess[1].toggles + sess[2].toggles
        /\ pulses = 2 => (sess[1].init = "ON" /\ sess[2].init = "ON")
        /\ (pulses >= 1 /\ device = "ON") => pulses = 2

\* both sessions read ON and sent their toggle; the second pulse switched the
\* projector on again and both sessions timed out
C20_Witness ==
    /\ TwoOffSessionsDeviceOn /\ pulses = 2 /\ device = "ON"
    /\ sess[1].pc = "done" /\ sess[1].exit = 1
    /\ sess[2].pc = "done" /\ sess[2].exit = 1

====
